---- MODULE Spec2Model ----
(***************************************************************************)
(* Gesture-driven storm engine of the "healing ocean" scene.               *)
(*                                                                         *)
(* App.tsx owns the React state (handData, gameState, msg) and the storm   *)
(* timers.  The scene exists in two builds: components/OceanEnvironment    *)
(* (SceneController, frame-driven LightningSystem) and the alternative     *)
(* OceanEnvironment of unnamed/part_000 (SceneContent, timer-driven        *)
(* LightningSystem).  `variant` says which one is mounted.                 *)
(*                                                                         *)
(* Units.  Time is counted in ticks of 1/60 s: the code's `delta`          *)
(* (seconds) is Sec(.) ticks and a setTimeout delay (ms) is Ms(.) ticks.   *)
(* Direction components are in hundredths.  Rain heights are in half       *)
(* units (H(.)), so that 150 * delta is exact for every delta.  The flash  *)
(* intensity, the camera coordinates and the water distortion are in       *)
(* thousandths; their products are rounded down to a thousandth.           *)
(*                                                                         *)
(* Timing.  `delta` is an input of a frame callback: it is measured by the *)
(* render loop's clock, while a setTimeout callback is dispatched by the   *)
(* host's task queue, which only guarantees "not before the delay".  The   *)
(* model therefore keeps the two time bases apart: Advance moves the       *)
(* timers (a due timer fires before time moves on), Frame(delta) moves the *)
(* frame clock, and any number of frames of any delta may run between two  *)
(* timer events.  React commits a re-render (Render) before timer time     *)
(* moves on and before any frame longer than MaxStaleDelta.                *)
(***************************************************************************)
EXTENDS Integers, Sequences, FiniteSets, TLC

VARIABLES
  variant,          \* which scene build is mounted
  handData,         \* App state: last hand sample
  gameState,        \* App state: "NORMAL" | "STORM"
  msg,              \* App state: overlay message
  dirty,            \* a React state update is waiting for its re-render
  props,            \* what the last render handed to the scene and captured in triggerStorm
  timers,           \* pending setTimeout callbacks, in creation order
  moveDurationRef,  \* SceneController accumulator (ticks)
  movementRef,      \* SceneContent accumulator (ticks)
  cameraPosition,   \* camera.position (thousandths)
  velocity,         \* SceneController: smoothed camera velocity (thousandths per second)
  distortionScale,  \* OceanMesh: the water shader's distortionScale uniform (thousandths)
  elapsedTime,      \* state.clock.elapsedTime (ticks)
  frameCount,       \* history: frames rendered so far (saturating)
  positions,        \* Rain: the position array x0,y0,z0,x1,..., <<>> while Rain is not mounted
  activeBolt,       \* LightningSystem (OceanEnvironment.tsx) state
  nextFlashTime,    \* LightningSystem (OceanEnvironment.tsx) ref
  flashIntensity,   \* LightningSystem (OceanEnvironment.tsx) ref (thousandths)
  boltPc,           \* createBoltPoints: "idle", "loop" (inside the call) or "done" (returned)
  startPos,         \* createBoltPoints: the height of its argument
  current,          \* createBoltPoints: the height of the running point
  pts,              \* createBoltPoints: the heights of the points pushed so far
  flash,            \* LightningSystem (part_000) state
  bolt,             \* LightningSystem (part_000) state
  lastFrame,        \* history: what the frame callbacks of the last step did
  triggerCalls,     \* history: calls of onEventTrigger so far (saturating)
  stormEntries,     \* history: NORMAL -> STORM transitions so far (saturating)
  stormAge,         \* history: timer time since the current storm was entered
  calmMotion,       \* history: frame time of gesture motion in NORMAL since the last storm ended (saturating)
  rainAge,          \* history: frame time since Rain was mounted (saturating)
  enabledAge,       \* history: frame time since the scene was last rendered into STORM (saturating)
  flashGap,         \* history: frame time since the last flash of the frame-driven LightningSystem (saturating)
  activeAge,        \* history: timer time since the scene was last rendered into STORM (saturating)
  boltAge           \* history: timer time since a bolt was last shown (saturating)

appVars    == <<handData, gameState, msg, dirty, props, timers>>
motionVars == <<cameraPosition, velocity, distortionScale>>
sceneVars  == <<variant, moveDurationRef, movementRef, motionVars>>
clockVars  == <<elapsedTime, frameCount>>
rainVars   == <<positions, rainAge>>
pathVars   == <<boltPc, startPos, current, pts>>
boltVars   == <<activeBolt, nextFlashTime, flashIntensity, pathVars>>
effectVars == <<flash, bolt>>
histVars   == <<lastFrame, triggerCalls, stormEntries, stormAge, calmMotion>>
ageVars    == <<enabledAge, flashGap, activeAge, boltAge>>
vars == <<appVars, sceneVars, clockVars, rainVars, boltVars, effectVars, histVars, ageVars>>

----------------------------------------------------------------------------
(* Units and bounds *)

Sec(s) == s * 60
Ms(ms) == (ms * 60) \div 1000
H(y)   == 2 * y
Thousandths(n) == n * 1000

Max(a, b) == IF a >= b THEN a ELSE b
Min(a, b) == IF a <= b THEN a ELSE b

MaxStaleDelta == 1      \* longest frame (ticks) that can still run before a pending re-render
MaxAccum      == 1320   \* frames that would push an accumulator beyond this are not explored
MaxElapsed    == 660    \* the frame clock is explored up to this many ticks
MaxCount      == 2      \* history counters saturate here ("two or more")
MaxFrames     == 3      \* the frame counter saturates here
MaxAge        == 60     \* the timer-time ages of the lightning history saturate here (ticks)
MaxOceanClock == 240    \* the OceanMesh frames are explored up to this clock value (ticks)
MaxFrameAge   == 30     \* the frame-time ages of the lightning history saturate here (ticks)

----------------------------------------------------------------------------
(* App.tsx *)

DefaultMsg == "Use your index finger to guide the view"
StormMsg   == "A STORM IS PASSING THROUGH..."
ClearMsg   == "The sky clears. Peace returns."

StormTimeoutMs == 10000
MsgTimeoutMs   == 4000

Sample(d, x, y) == [isDetected |-> d, directionVector |-> [x |-> x, y |-> y]]

InitialHandData == Sample(FALSE, 0, 0)
MovingSample    == Sample(TRUE, 90, 0)
DeadzoneSample  == Sample(TRUE, 10, 5)

Timer(cb, due) == [cb |-> cb, due |-> due]

RemoveAt(s, i) == [j \in 1..(Len(s) - 1) |-> IF j < i THEN s[j] ELSE s[j + 1]]

\* triggerStorm's early return; gameState is the value captured by the last render
triggerStormReturnsEarly_NoGuard == FALSE
triggerStormReturnsEarly == props.gameState = "STORM"

\* the delay of the storm-expiry timer
StormDelay_FromMsg == Ms(MsgTimeoutMs)
StormDelay == Ms(StormTimeoutMs)

\* timers scheduled by one call of triggerStorm
triggerStormTimers ==
  IF triggerStormReturnsEarly THEN <<>> ELSE <<Timer("stormEnd", StormDelay)>>

\* handleHandUpdate: setHandData(data)
handleHandUpdate(data) ==
  /\ handData' = data
  /\ dirty' = TRUE
  /\ lastFrame' = [ran |-> FALSE]
  /\ UNCHANGED <<gameState, msg, props, timers>>
  /\ UNCHANGED <<sceneVars, clockVars, rainVars, boltVars, effectVars>>
  /\ UNCHANGED <<triggerCalls, stormEntries, stormAge, calmMotion, ageVars>>

\* the re-render: the scene receives the current state and triggerStorm is re-created
CommitProps ==
  /\ dirty
  /\ dirty' = FALSE
  /\ props' = [handData |-> handData, gameState |-> gameState]
  /\ lastFrame' = [ran |-> FALSE]
  /\ UNCHANGED <<handData, gameState, msg>>
  /\ UNCHANGED <<sceneVars, clockVars, boltVars>>
  /\ UNCHANGED <<triggerCalls, stormEntries, stormAge, calmMotion>>
  /\ enabledAge' = IF gameState = "STORM" /\ props.gameState # "STORM" THEN 0 ELSE enabledAge
  /\ activeAge' = IF gameState = "STORM" /\ props.gameState # "STORM" THEN 0 ELSE activeAge
  /\ UNCHANGED <<flashGap, boltAge>>

----------------------------------------------------------------------------
(* Gesture accumulator: SceneController (OceanEnvironment.tsx) and         *)
(* SceneContent (part_000)                                                 *)

EVENT_THRESHOLD_SECONDS == 10

Abs(n) == IF n < 0 THEN 0 - n ELSE n

\* SceneController: isDetected and mag > deadzone (0.15), compared on the squares
SceneControllerIsMoving_NoDeadzone(h) ==
  /\ h.isDetected
  /\ h.directionVector.x * h.directionVector.x
       + h.directionVector.y * h.directionVector.y > 0
SceneControllerIsMoving(h) ==
  /\ h.isDetected
  /\ h.directionVector.x * h.directionVector.x
       + h.directionVector.y * h.directionVector.y > 15 * 15

\* SceneContent: |x| > 0.2 or |y| > 0.2
SceneContentIsMoving(h) ==
  \/ Abs(h.directionVector.x) > 20
  \/ Abs(h.directionVector.y) > 20

\* SceneController: the accumulator after the increment or the decay, before the threshold test
SceneControllerAccumulate_GrowsWhenIdle(acc, h, delta) == acc + delta
SceneControllerAccumulate(acc, h, delta) ==
  IF SceneControllerIsMoving(h) THEN acc + delta ELSE Max(0, acc - delta * 2)

\* SceneController: onEventTrigger is called
SceneControllerFires_AtThreshold(acc, h, delta) ==
  /\ SceneControllerIsMoving(h)
  /\ SceneControllerAccumulate(acc, h, delta) >= Sec(EVENT_THRESHOLD_SECONDS)
SceneControllerFires(acc, h, delta) ==
  /\ SceneControllerIsMoving(h)
  /\ SceneControllerAccumulate(acc, h, delta) > Sec(EVENT_THRESHOLD_SECONDS)

\* SceneContent: the accumulator after the increment or the decay, before the threshold test
SceneContentAccumulate(acc, h, delta) ==
  IF ~h.isDetected THEN acc
  ELSE IF SceneContentIsMoving(h) THEN acc + delta ELSE Max(0, acc - delta)

\* SceneContent: onEventTrigger is called
SceneContentFires(acc, h, delta) ==
  /\ h.isDetected
  /\ SceneContentAccumulate(acc, h, delta) > 10 * 60
  /\ props.gameState = "NORMAL"

\* the mounted scene calls onEventTrigger in a frame of this delta
Fires(delta) ==
  IF variant = "SceneController"
  THEN SceneControllerFires(moveDurationRef, props.handData, delta)
  ELSE SceneContentFires(movementRef, props.handData, delta)

\* the mounted scene counts the rendered sample as motion
IsMoving ==
  IF variant = "SceneController"
  THEN SceneControllerIsMoving(props.handData)
  ELSE props.handData.isDetected /\ SceneContentIsMoving(props.handData)

\* the mounted scene's accumulator
Accumulator == IF variant = "SceneController" THEN moveDurationRef ELSE movementRef

\* the accumulator value that the threshold test of this frame looks at
Accumulated(delta) ==
  IF variant = "SceneController"
  THEN SceneControllerAccumulate(moveDurationRef, props.handData, delta)
  ELSE SceneContentAccumulate(movementRef, props.handData, delta)

\* the scene's useFrame callback, with the triggerStorm call it makes
SceneStep(delta) ==
  LET fires    == Fires(delta)
      accepted == fires /\ ~triggerStormReturnsEarly
      acc      == Accumulated(delta)
  IN /\ dirty => delta <= MaxStaleDelta
     /\ acc <= MaxAccum
     /\ IF variant = "SceneController"
        THEN /\ moveDurationRef' = IF fires THEN 0 ELSE acc
             /\ UNCHANGED movementRef
        ELSE /\ movementRef' = IF fires THEN 0 ELSE acc
             /\ UNCHANGED moveDurationRef
     /\ UNCHANGED variant
     /\ gameState' = IF accepted THEN "STORM" ELSE gameState
     /\ msg' = IF accepted THEN StormMsg ELSE msg
     /\ dirty' = (dirty \/ accepted)
     /\ UNCHANGED <<handData, props>>
     /\ lastFrame' = [ran |-> TRUE, positive |-> delta > 0, called |-> fires,
                      gameState |-> gameState, exceeded |-> acc > Sec(EVENT_THRESHOLD_SECONDS)]
     /\ triggerCalls' = IF fires THEN Min(triggerCalls + 1, MaxCount) ELSE triggerCalls
     /\ stormEntries' = IF accepted /\ gameState = "NORMAL"
                        THEN Min(stormEntries + 1, MaxCount) ELSE stormEntries
     /\ stormAge' = IF accepted /\ gameState = "NORMAL" THEN 0 ELSE stormAge
     /\ calmMotion' = IF gameState = "NORMAL" /\ IsMoving
                      THEN Min(calmMotion + delta, Sec(EVENT_THRESHOLD_SECONDS) + 1)
                      ELSE calmMotion

\* timers the scene's callback schedules in this frame
SceneTimers(delta) == IF Fires(delta) THEN triggerStormTimers ELSE <<>>

(* Camera: the other half of the same two callbacks.  It reads the hand    *)
(* sample and delta and feeds nothing else.                                *)

\* <Canvas camera={{ position: [0, 10, 100] }}>, in both builds
InitialCamera == [x |-> Thousandths(0), y |-> Thousandths(10), z |-> Thousandths(100)]

SPEED == 15

\* SceneController: targetVelocity, from a direction component in hundredths
TargetVelocity(h, component) ==
  IF SceneControllerIsMoving(h) THEN component * SPEED * 10 ELSE 0

\* SceneController: velocity += (targetVelocity - velocity) * 0.05
Smoothed(v, target) == v + ((target - v) * 5) \div 100

\* SceneController: the camera follows the smoothed velocity at eye height 10
SceneControllerCamera_PerFrame(cam, vel, h, delta) ==
  LET vx == Smoothed(vel.x, TargetVelocity(h, h.directionVector.x))
      vz == Smoothed(vel.z, TargetVelocity(h, h.directionVector.y))
  IN [camera   |-> [x |-> cam.x + vx \div 60,
                    y |-> Thousandths(10),
                    z |-> cam.z + vz \div 60],
      velocity |-> [x |-> vx, z |-> vz]]
SceneControllerCamera(cam, vel, h, delta) ==
  LET vx == Smoothed(vel.x, TargetVelocity(h, h.directionVector.x))
      vz == Smoothed(vel.z, TargetVelocity(h, h.directionVector.y))
  IN [camera   |-> [x |-> cam.x + (vx * delta) \div 60,
                    y |-> Thousandths(10),
                    z |-> cam.z + (vz * delta) \div 60],
      velocity |-> [x |-> vx, z |-> vz]]

\* SceneContent: position += (direction * gain + base - position) * delta * 0.5
SceneContentCamera(cam, h, delta) ==
  [x |-> cam.x + ((h.directionVector.x * 10 * 10 - cam.x) * delta) \div 120,
   y |-> cam.y + ((h.directionVector.y * 5 * 10 + Thousandths(10) - cam.y) * delta) \div 120,
   z |-> cam.z]

CameraStep(delta) ==
  IF variant = "SceneController"
  THEN LET next == SceneControllerCamera(cameraPosition, velocity, props.handData, delta)
       IN /\ cameraPosition' = next.camera
          /\ velocity' = next.velocity
  ELSE /\ cameraPosition' = SceneContentCamera(cameraPosition, props.handData, delta)
       /\ UNCHANGED velocity

----------------------------------------------------------------------------
(* Timers *)

Due(i) == /\ i \in 1..Len(timers)
          /\ timers[i].due = 0
          /\ \A j \in 1..(i - 1) : timers[j].due > 0

\* the callback of setTimeout(..., 10000) in triggerStorm
StormEnd_NoRestore(i) ==
  /\ Due(i)
  /\ timers[i].cb = "stormEnd"
  /\ gameState' = "NORMAL"
  /\ msg' = ClearMsg
  /\ timers' = RemoveAt(timers, i)
  /\ dirty' = TRUE
  /\ lastFrame' = [ran |-> FALSE]
  /\ stormAge' = 0
  /\ calmMotion' = 0
  /\ UNCHANGED <<handData, props>>
  /\ UNCHANGED <<sceneVars, clockVars, rainVars, boltVars, effectVars>>
  /\ UNCHANGED <<triggerCalls, stormEntries, ageVars>>
StormEnd(i) ==
  /\ Due(i)
  /\ timers[i].cb = "stormEnd"
  /\ gameState' = "NORMAL"
  /\ msg' = ClearMsg
  /\ timers' = Append(RemoveAt(timers, i), Timer("restoreMsg", Ms(MsgTimeoutMs)))
  /\ dirty' = TRUE
  /\ lastFrame' = [ran |-> FALSE]
  /\ stormAge' = 0
  /\ calmMotion' = 0
  /\ UNCHANGED <<handData, props>>
  /\ UNCHANGED <<sceneVars, clockVars, rainVars, boltVars, effectVars>>
  /\ UNCHANGED <<triggerCalls, stormEntries, ageVars>>

\* the callback of the nested setTimeout(..., 4000)
RestoreMsg(i) ==
  /\ Due(i)
  /\ timers[i].cb = "restoreMsg"
  /\ msg' = DefaultMsg
  /\ timers' = RemoveAt(timers, i)
  /\ dirty' = TRUE
  /\ lastFrame' = [ran |-> FALSE]
  /\ UNCHANGED <<handData, gameState, props>>
  /\ UNCHANGED <<sceneVars, clockVars, rainVars, boltVars, effectVars>>
  /\ UNCHANGED <<triggerCalls, stormEntries, stormAge, calmMotion, ageVars>>

MinDue == IF timers = <<>> THEN 0
          ELSE CHOOSE d \in {timers[i].due : i \in 1..Len(timers)} :
                 \A i \in 1..Len(timers) : d <= timers[i].due

\* timer time passes; no pending timer is overrun and no re-render is left waiting
Advance(d) ==
  /\ timers # <<>>
  /\ ~dirty
  /\ d > 0
  /\ d <= MinDue
  /\ timers' = [i \in 1..Len(timers) |-> [timers[i] EXCEPT !.due = @ - d]]
  /\ stormAge' = IF gameState = "STORM" THEN stormAge + d ELSE stormAge
  /\ UNCHANGED calmMotion
  /\ lastFrame' = [ran |-> FALSE]
  /\ UNCHANGED <<handData, gameState, msg, dirty, props>>
  /\ UNCHANGED <<sceneVars, clockVars, rainVars, boltVars, effectVars>>
  /\ UNCHANGED <<triggerCalls, stormEntries>>
  /\ activeAge' = Min(activeAge + d, MaxAge)
  /\ boltAge' = Min(boltAge + d, MaxAge)
  /\ UNCHANGED <<enabledAge, flashGap>>

----------------------------------------------------------------------------
(* Frame clock *)

\* state.clock: elapsedTime has already been advanced by delta when the callbacks run
Now(delta) == elapsedTime + delta

ClockStep(delta) ==
  /\ Now(delta) <= MaxElapsed
  /\ elapsedTime' = Now(delta)
  /\ frameCount' = Min(frameCount + 1, MaxFrames)

----------------------------------------------------------------------------
(* Rain (identical in both builds) *)

MaxParticles == 2    \* particles explored; the code's count is 5000

RainTop       == 300
RainFallSpeed == 150
RainSpread    == 400

\* Math.random() * 400 lies in [0, 400)
InitialHeights == {H(0), H(1), H(150), H(RainTop), H(RainTop + 1), H(RainSpread - 1)}

\* (Math.random() - 0.5) * 800 lies in [-400, 400): the (x, z) given to the particles
InitialColumns == {<<H(0 - RainSpread), H(RainSpread - 1)>>, <<H(RainSpread - 1), H(0 - RainSpread)>>}

\* pos[i * 3], pos[i * 3 + 1], pos[i * 3 + 2] of the code are elements 3i+1, 3i+2, 3i+3 here
initialPositions ==
  {[k \in 1..(3 * MaxParticles) |->
      IF k % 3 = 2 THEN ys[(k + 1) \div 3] ELSE IF k % 3 = 1 THEN xz[1] ELSE xz[2]] :
    ys \in [1..MaxParticles -> InitialHeights], xz \in InitialColumns}

\* one particle in one frame: fall, then wrap to the top when below 0
RainParticle_NoReset(y, delta) == y - (H(RainFallSpeed) * delta) \div 60
RainParticle_ResetToSpread(y, delta) ==
  LET fallen == y - (H(RainFallSpeed) * delta) \div 60
  IN IF fallen < 0 THEN H(RainSpread) ELSE fallen
RainParticle(y, delta) ==
  LET fallen == y - (H(RainFallSpeed) * delta) \div 60
  IN IF fallen < 0 THEN H(RainTop) ELSE fallen

\* Rain's useFrame callback; it is subscribed only while Rain is mounted
\* for (let i = 1; i < count * 3; i += 3): the code's index 1, 4, 7, ... is element 2, 5, 8, ...
RainStep_EveryIndex(delta) ==
  IF positions = <<>>
  THEN UNCHANGED rainVars
  ELSE /\ positions' = [k \in 1..Len(positions) |-> RainParticle(positions[k], delta)]
       /\ rainAge' = Min(rainAge + delta, Sec(3))
RainStep(delta) ==
  IF positions = <<>>
  THEN UNCHANGED rainVars
  ELSE /\ positions' = [k \in 1..Len(positions) |->
                          IF k % 3 = 2 THEN RainParticle(positions[k], delta) ELSE positions[k]]
       /\ rainAge' = Min(rainAge + delta, Sec(3))

\* {gameState === GameState.STORM && <Rain />}: mount with fresh positions, unmount
CommitRain ==
  IF gameState = "STORM" /\ positions = <<>>
  THEN /\ positions' \in initialPositions
       /\ rainAge' = 0
  ELSE IF gameState # "STORM"
  THEN /\ positions' = <<>>
       /\ rainAge' = 0
  ELSE UNCHANGED rainVars

----------------------------------------------------------------------------
(* LightningSystem of OceanEnvironment.tsx (frame-driven) *)

\* flashIntensity.current = 2.0
FlashPeak == Thousandths(2)

BoltTimeoutMs == 150

\* Math.random() * 2.5 + 0.5 seconds lies in [0.5 s, 3 s)
FlashDelays == {Sec(1) \div 2, Sec(1), Sec(3) - 1}

\* useState<Vector3 | null>(null): no bolt, and the bolt of a flash
NullBolt == [isNull |-> TRUE]
NewBolt == [x |-> 0, y |-> 300, z |-> 0 - 200]

\* MathUtils.lerp(x, y, t) = (1 - t) * x + t * y, with t = num / den
Lerp(x, y, num, den) == ((den - num) * x + num * y) \div den

\* the component exists in the SceneController build only
HasFrameLightning == variant = "SceneController"

Flashes(delta) ==
  /\ HasFrameLightning
  /\ props.gameState = "STORM"
  /\ Now(delta) > nextFlashTime

\* the decay of the flash intensity: lerp(flashIntensity, 0, delta * 5)
FlashDecay(intensity, delta) == Lerp(intensity, 0, delta * 5, 60)

\* LightningSystem's useFrame callback; nextDelay is the random draw of a flash
LightningStep(delta, nextDelay) ==
  IF ~HasFrameLightning
  THEN UNCHANGED <<boltVars, enabledAge, flashGap, boltAge>>
  ELSE /\ enabledAge' = Min(enabledAge + delta, MaxFrameAge)
       /\ flashGap' = IF Flashes(delta) THEN 0 ELSE Min(flashGap + delta, MaxFrameAge)
       /\ boltAge' = IF Flashes(delta) THEN 0 ELSE boltAge
       /\ UNCHANGED pathVars
       /\ IF props.gameState # "STORM"
          THEN /\ activeBolt' = NullBolt
               /\ flashIntensity' = 0
               /\ UNCHANGED nextFlashTime
          ELSE /\ activeBolt' = IF Flashes(delta) THEN NewBolt ELSE activeBolt
               /\ nextFlashTime' =
                    IF Flashes(delta) THEN Now(delta) + nextDelay ELSE nextFlashTime
               /\ flashIntensity' =
                    FlashDecay(IF Flashes(delta) THEN FlashPeak ELSE flashIntensity, delta)

\* timers LightningSystem's callback schedules in this frame
LightningTimers(delta) ==
  IF Flashes(delta) THEN <<Timer("hideBolt", Ms(BoltTimeoutMs))>> ELSE <<>>

\* the callback of setTimeout(() => setActiveBolt(null), 150)
HideBolt(i) ==
  /\ Due(i)
  /\ timers[i].cb = "hideBolt"
  /\ activeBolt' = NullBolt
  /\ timers' = RemoveAt(timers, i)
  /\ lastFrame' = [ran |-> FALSE]
  /\ UNCHANGED <<handData, gameState, msg, dirty, props>>
  /\ UNCHANGED <<nextFlashTime, flashIntensity, pathVars>>
  /\ UNCHANGED <<sceneVars, clockVars, rainVars, effectVars>>
  /\ UNCHANGED <<triggerCalls, stormEntries, stormAge, calmMotion, ageVars>>

----------------------------------------------------------------------------
(* createBoltPoints (OceanEnvironment.tsx): the path of a bolt.  The loop   *)
(* tests and changes only the height of the running point; the x and z     *)
(* offsets it draws feed nothing back and are left out, so a point is its  *)
(* height, in whole units.                                                 *)

\* the y of the argument; LightningSystem passes new Vector3(x, 300, z)
StartHeights == {0 - 5, 0, 10, 11, 45, 300}

\* Math.random() * 30 + 10 lies in [10, 40)
Drops_FromZero == {0, 39}
Drops == {10, 39}

\* let current = startPos.clone(); pts.push(current.clone())
BoltBegins ==
  /\ boltPc \in {"idle", "done"}
  /\ \E y \in StartHeights :
       /\ startPos' = y
       /\ current' = y
       /\ pts' = <<y>>
  /\ boltPc' = "loop"
  /\ UNCHANGED <<appVars, sceneVars, clockVars, rainVars, effectVars, histVars, ageVars>>
  /\ UNCHANGED <<activeBolt, nextFlashTime, flashIntensity>>

\* one iteration of while (current.y > 10)
BoltDrops ==
  /\ boltPc = "loop"
  /\ current > 10
  /\ \E drop \in Drops :
       /\ current' = current - drop
       /\ pts' = Append(pts, current - drop)
  /\ UNCHANGED <<boltPc, startPos>>
  /\ UNCHANGED <<appVars, sceneVars, clockVars, rainVars, effectVars, histVars, ageVars>>
  /\ UNCHANGED <<activeBolt, nextFlashTime, flashIntensity>>

\* the loop condition fails: return pts
BoltReturns ==
  /\ boltPc = "loop"
  /\ ~(current > 10)
  /\ boltPc' = "done"
  /\ UNCHANGED <<startPos, current, pts>>
  /\ UNCHANGED <<appVars, sceneVars, clockVars, rainVars, effectVars, histVars, ageVars>>
  /\ UNCHANGED <<activeBolt, nextFlashTime, flashIntensity>>

----------------------------------------------------------------------------
(* OceanMesh *)

baseDistortion  == 3700
stormDistortion == Thousandths(8)

targetDistortion == IF props.gameState = "STORM" THEN stormDistortion ELSE baseDistortion

\* OceanMesh's useFrame callback: the distortion is lerped toward its target
\* by delta (OceanEnvironment.tsx) or by delta * 0.5 (part_000)
OceanStep(delta) ==
  distortionScale' =
    IF variant = "SceneController"
    THEN Lerp(distortionScale, targetDistortion, delta, 60)
    ELSE Lerp(distortionScale, targetDistortion, delta, 120)

----------------------------------------------------------------------------
(* LightningSystem of part_000 (timer-driven effect) *)

FlashHideMs == 100
BoltHideMs  == 300

\* Math.random() * 1000 ms lies in [0 s, 1 s)
FirstDelays == {0, Sec(1) \div 2, Sec(1) - 1}

\* Math.random() * 2000 + 1000 ms lies in [1 s, 3 s)
NextDelays_FromFirst == FirstDelays
NextDelays == {Sec(1), Sec(3) - 1}

HasEffectLightning == variant = "SceneContent"

\* clearTimeout(timeoutId): the pending triggerLightning timer is dropped
WithoutLightningTimer_KeepsAll == timers
WithoutLightningTimer == SelectSeq(timers, LAMBDA t : t.cb # "triggerLightning")

\* useEffect(..., [active, scene]): cleanup of the previous run, then the new run
CommitEffect ==
  IF HasEffectLightning /\ (gameState = "STORM") # (props.gameState = "STORM")
  THEN IF gameState # "STORM"
       THEN /\ flash' = FALSE
            /\ bolt' = FALSE
            /\ timers' = WithoutLightningTimer
       ELSE /\ \E first \in FirstDelays :
                 timers' = Append(timers, Timer("triggerLightning", first))
            /\ UNCHANGED effectVars
  ELSE UNCHANGED <<timers, effectVars>>

\* triggerLightning, run by its timer
TriggerLightning(i) ==
  /\ Due(i)
  /\ timers[i].cb = "triggerLightning"
  /\ bolt' = TRUE
  /\ flash' = TRUE
  /\ \E nextDelay \in NextDelays :
       timers' = RemoveAt(timers, i) \o <<Timer("hideFlash", Ms(FlashHideMs)),
                                          Timer("hideBoltLate", Ms(BoltHideMs)),
                                          Timer("triggerLightning", nextDelay)>>
  /\ lastFrame' = [ran |-> FALSE]
  /\ UNCHANGED <<handData, gameState, msg, dirty, props>>
  /\ UNCHANGED <<sceneVars, clockVars, rainVars, boltVars>>
  /\ UNCHANGED <<triggerCalls, stormEntries, stormAge, calmMotion>>
  /\ boltAge' = 0
  /\ UNCHANGED <<enabledAge, flashGap, activeAge>>

\* the callback of setTimeout(..., 100) in triggerLightning
HideFlash(i) ==
  /\ Due(i)
  /\ timers[i].cb = "hideFlash"
  /\ flash' = FALSE
  /\ timers' = RemoveAt(timers, i)
  /\ lastFrame' = [ran |-> FALSE]
  /\ UNCHANGED <<handData, gameState, msg, dirty, props, bolt>>
  /\ UNCHANGED <<sceneVars, clockVars, rainVars, boltVars>>
  /\ UNCHANGED <<triggerCalls, stormEntries, stormAge, calmMotion, ageVars>>

\* the callback of setTimeout(..., 300) in triggerLightning
HideBoltLate(i) ==
  /\ Due(i)
  /\ timers[i].cb = "hideBoltLate"
  /\ bolt' = FALSE
  /\ timers' = RemoveAt(timers, i)
  /\ lastFrame' = [ran |-> FALSE]
  /\ UNCHANGED <<handData, gameState, msg, dirty, props, flash>>
  /\ UNCHANGED <<sceneVars, clockVars, rainVars, boltVars>>
  /\ UNCHANGED <<triggerCalls, stormEntries, stormAge, calmMotion, ageVars>>

----------------------------------------------------------------------------
(* The program: App with the scene's gesture accumulator *)

Samples       == {InitialHandData, DeadzoneSample, MovingSample}
Deltas        == {0, 60, 240, 660}
AdvanceSteps  == {60, 240}

Init ==
  /\ variant \in {"SceneController", "SceneContent"}
  /\ handData = InitialHandData
  /\ gameState = "NORMAL"
  /\ msg = DefaultMsg
  /\ dirty = FALSE
  /\ props = [handData |-> InitialHandData, gameState |-> "NORMAL"]
  /\ timers = <<>>
  /\ moveDurationRef = 0
  /\ movementRef = 0
  /\ cameraPosition = InitialCamera
  /\ velocity = [x |-> 0, z |-> 0]
  /\ distortionScale = baseDistortion
  /\ elapsedTime = 0
  /\ frameCount = 0
  /\ positions = <<>>
  /\ activeBolt = NullBolt
  /\ boltPc = "idle"
  /\ startPos = 0
  /\ current = 0
  /\ pts = <<>>
  /\ nextFlashTime = 0
  /\ flashIntensity = 0
  /\ flash = FALSE
  /\ bolt = FALSE
  /\ lastFrame = [ran |-> FALSE]
  /\ triggerCalls = 0
  /\ stormEntries = 0
  /\ stormAge = 0
  /\ calmMotion = 0
  /\ rainAge = 0
  /\ enabledAge = MaxFrameAge
  /\ flashGap = MaxFrameAge
  /\ activeAge = MaxAge
  /\ boltAge = MaxAge

HandUpdate == \E data \in Samples : handleHandUpdate(data)

\* a re-render of App and of the scene's props
Render ==
  /\ CommitProps
  /\ UNCHANGED timers
  /\ UNCHANGED <<rainVars, effectVars>>

\* a frame of the gesture accumulator alone
FrameScene(delta) ==
  /\ SceneStep(delta)
  /\ timers' = timers \o SceneTimers(delta)
  /\ UNCHANGED <<motionVars, clockVars, rainVars, boltVars, effectVars, ageVars>>

Frame == \E delta \in Deltas : FrameScene(delta)

StormExpires == \E i \in 1..Len(timers) : StormEnd(i)

MsgRestored == \E i \in 1..Len(timers) : RestoreMsg(i)

TimePasses == \E d \in AdvanceSteps \cup {MinDue} : Advance(d)

Next == HandUpdate \/ Render \/ Frame \/ StormExpires \/ MsgRestored \/ TimePasses

Spec == Init /\ [][Next]_vars

\* time keeps passing and due callbacks and pending re-renders are run
FairSpec ==
  /\ Spec
  /\ SF_vars(TimePasses)
  /\ WF_vars(StormExpires)
  /\ WF_vars(MsgRestored)
  /\ WF_vars(Render)

----------------------------------------------------------------------------
(* The whole scene: every frame callback runs in each frame *)

\* a re-render with the mounts and effects it commits
RenderAll ==
  /\ CommitProps
  /\ CommitRain
  /\ CommitEffect

\* one frame of the render loop: the clock, then the callbacks that take part
\* in the storm, in mount order (gesture accumulator, Rain, LightningSystem)
FrameStorm(delta) ==
  \E nextDelay \in FlashDelays :
    /\ ClockStep(delta)
    /\ SceneStep(delta)
    /\ RainStep(delta)
    /\ LightningStep(delta, nextDelay)
    /\ timers' = timers \o SceneTimers(delta) \o LightningTimers(delta)
    /\ UNCHANGED <<effectVars, activeAge>>

\* the frame without its camera and water motion, which feed nothing else
FrameAll(delta) ==
  /\ FrameStorm(delta)
  /\ UNCHANGED motionVars

\* the frame with every subscribed callback
FrameWorld(delta) ==
  /\ FrameStorm(delta)
  /\ CameraStep(delta)
  /\ OceanStep(delta)

BoltHidden == \E i \in 1..Len(timers) : HideBolt(i)

LightningStrikes == \E i \in 1..Len(timers) : TriggerLightning(i)

FlashHidden == \E i \in 1..Len(timers) : HideFlash(i)

LateBoltHidden == \E i \in 1..Len(timers) : HideBoltLate(i)

TimeToNextTimer == Advance(MinDue)

(* Sustained motion: the sample (0.9, 0) is rendered from the start and    *)
(* every frame has delta = 1/60 s                                          *)

InitSustained ==
  /\ variant \in {"SceneController", "SceneContent"}
  /\ handData = MovingSample
  /\ gameState = "NORMAL"
  /\ msg = DefaultMsg
  /\ dirty = FALSE
  /\ props = [handData |-> MovingSample, gameState |-> "NORMAL"]
  /\ timers = <<>>
  /\ moveDurationRef = 0
  /\ movementRef = 0
  /\ cameraPosition = InitialCamera
  /\ velocity = [x |-> 0, z |-> 0]
  /\ distortionScale = baseDistortion
  /\ elapsedTime = 0
  /\ frameCount = 0
  /\ positions = <<>>
  /\ activeBolt = NullBolt
  /\ boltPc = "idle"
  /\ startPos = 0
  /\ current = 0
  /\ pts = <<>>
  /\ nextFlashTime = 0
  /\ flashIntensity = 0
  /\ flash = FALSE
  /\ bolt = FALSE
  /\ lastFrame = [ran |-> FALSE]
  /\ triggerCalls = 0
  /\ stormEntries = 0
  /\ stormAge = 0
  /\ calmMotion = 0
  /\ rainAge = 0
  /\ enabledAge = MaxFrameAge
  /\ flashGap = MaxFrameAge
  /\ activeAge = MaxAge
  /\ boltAge = MaxAge

\* 10.1 s of frames
SustainedTicks == Sec(10) + 6

SteadyFrame == Now(1) <= SustainedTicks /\ FrameWorld(1)

\* the scenario ends 5 ticks after the trigger: only a timer of delay 0 runs within it
NextSustained == SteadyFrame \/ RenderAll \/ LightningStrikes

SpecSustained == InitSustained /\ [][NextSustained]_vars

(* Quiet input: only one kind of sample ever arrives *)

QuietDeltas == {0, 1, 60}

QuietFrame == \E delta \in QuietDeltas : FrameAll(delta)

DeadzoneUpdate == handleHandUpdate(DeadzoneSample)

NextDeadzone == DeadzoneUpdate \/ RenderAll \/ QuietFrame

SpecDeadzone == Init /\ [][NextDeadzone]_vars

UndetectedUpdate == handleHandUpdate(InitialHandData)

NextIdle == UndetectedUpdate \/ RenderAll \/ QuietFrame

SpecIdle == Init /\ [][NextIdle]_vars

----------------------------------------------------------------------------
(* Weather components on their own: the game state is switched by the       *)
(* environment (the setGameState calls of triggerStorm and of its timer)    *)

StormToggles ==
  /\ ~dirty
  /\ gameState' = IF gameState = "STORM" THEN "NORMAL" ELSE "STORM"
  /\ dirty' = TRUE
  /\ UNCHANGED <<handData, msg, props, timers>>
  /\ UNCHANGED <<sceneVars, clockVars, rainVars, boltVars, effectVars, histVars, ageVars>>

\* the frames a callback may see: a pending re-render is committed before a long frame
FrameAllowed(delta) == dirty => delta <= MaxStaleDelta

(* Rain *)

RainDeltas == {0, 30, 60, 180}

RenderRain ==
  /\ CommitProps
  /\ CommitRain
  /\ UNCHANGED <<timers, effectVars>>

RainFrame ==
  \E delta \in RainDeltas :
    /\ FrameAllowed(delta)
    /\ positions # <<>>
    /\ RainStep(delta)
    /\ UNCHANGED <<appVars, sceneVars, clockVars, boltVars, effectVars, histVars, ageVars>>

NextRain == StormToggles \/ RenderRain \/ RainFrame

SpecRain == Init /\ [][NextRain]_vars

(* LightningSystem of OceanEnvironment.tsx *)

InitLightning == Init /\ variant = "SceneController"

LightningDeltas == {0, 6, 30, 60}

MaxFlashClock == 72     \* the lightning frames are explored up to this clock value

RenderLightning ==
  /\ CommitProps
  /\ UNCHANGED <<timers, rainVars, effectVars>>

LightningFrame ==
  \E delta \in LightningDeltas, nextDelay \in FlashDelays :
    /\ FrameAllowed(delta)
    /\ Now(delta) <= MaxFlashClock
    /\ ClockStep(delta)
    /\ LightningStep(delta, nextDelay)
    /\ timers' = timers \o LightningTimers(delta)
    /\ UNCHANGED <<handData, gameState, msg, dirty, props>>
    /\ UNCHANGED <<sceneVars, rainVars, effectVars, histVars, activeAge>>

NextLightning ==
  StormToggles \/ RenderLightning \/ LightningFrame \/ BoltHidden \/ TimeToNextTimer

SpecLightning == InitLightning /\ [][NextLightning]_vars

(* Storms: both LightningSystems with the storm timers of App; the gesture  *)
(* is left to the environment, which calls onEventTrigger at any moment     *)
(* once the previous state has been rendered                                *)

\* onEventTrigger(): the call of triggerStorm
EventTrigger ==
  /\ ~dirty
  /\ ~triggerStormReturnsEarly
  /\ gameState' = "STORM"
  /\ msg' = StormMsg
  /\ timers' = timers \o triggerStormTimers
  /\ dirty' = TRUE
  /\ lastFrame' = [ran |-> FALSE]
  /\ stormEntries' = Min(stormEntries + 1, MaxCount)
  /\ stormAge' = 0
  /\ UNCHANGED <<handData, props, triggerCalls, calmMotion>>
  /\ UNCHANGED <<sceneVars, clockVars, rainVars, boltVars, effectVars, ageVars>>

RenderStorms ==
  /\ CommitProps
  /\ CommitEffect
  /\ UNCHANGED rainVars

\* only the frame-driven LightningSystem subscribes a frame callback
StormFrame == HasFrameLightning /\ LightningFrame

NextStorms ==
  \/ EventTrigger
  \/ RenderStorms
  \/ StormFrame
  \/ BoltHidden
  \/ LightningStrikes
  \/ FlashHidden
  \/ LateBoltHidden
  \/ StormExpires
  \/ MsgRestored
  \/ TimeToNextTimer

SpecStorms == Init /\ [][NextStorms]_vars

(* Storms of the timer-driven build: everything that happens is a timer    *)
(* callback, a gesture trigger or a re-render                              *)

InitTimerStorms == Init /\ HasEffectLightning

NextTimerStorms ==
  \/ EventTrigger
  \/ RenderStorms
  \/ LightningStrikes
  \/ FlashHidden
  \/ LateBoltHidden
  \/ StormExpires
  \/ MsgRestored
  \/ TimeToNextTimer

SpecTimerStorms == InitTimerStorms /\ [][NextTimerStorms]_vars

(* OceanMesh: its frame callback under a game state switched by the        *)
(* environment; the frames include long ones (a render loop that was        *)
(* paused reports the whole pause as one delta)                             *)

OceanDeltas == {0, 30, 90, 150}

RenderOcean ==
  /\ CommitProps
  /\ UNCHANGED <<timers, rainVars, effectVars>>

OceanFrame ==
  \E delta \in OceanDeltas :
    /\ FrameAllowed(delta)
    /\ Now(delta) <= MaxOceanClock
    /\ ClockStep(delta)
    /\ OceanStep(delta)
    /\ UNCHANGED <<variant, moveDurationRef, movementRef, cameraPosition, velocity>>
    /\ UNCHANGED <<appVars, rainVars, boltVars, effectVars, histVars, ageVars>>

NextOcean == StormToggles \/ RenderOcean \/ OceanFrame

SpecOcean == Init /\ [][NextOcean]_vars

(* Bolt paths: calls of createBoltPoints, one after the other; a call runs  *)
(* to its return once it has begun                                         *)

NextBolt == BoltBegins \/ BoltDrops \/ BoltReturns

SpecBolt == Init /\ [][NextBolt]_vars

FairSpecBolt == SpecBolt /\ WF_vars(BoltDrops) /\ WF_vars(BoltReturns)

(* Motion: the scene callback with its camera, OceanMesh and Rain over a   *)
(* few frames; timer time does not pass                                    *)

MotionDeltas == {0, 30}

MaxMotionClock == 120   \* the motion frames are explored up to this clock value

MotionSamples == {InitialHandData, MovingSample}

MotionFrame ==
  \E delta \in MotionDeltas :
    /\ Now(delta) <= MaxMotionClock
    /\ frameCount < MaxFrames
    /\ ClockStep(delta)
    /\ SceneStep(delta)
    /\ CameraStep(delta)
    /\ OceanStep(delta)
    /\ RainStep(delta)
    /\ timers' = timers \o SceneTimers(delta)
    /\ UNCHANGED <<boltVars, effectVars, ageVars>>

MotionUpdate == \E data \in MotionSamples : handleHandUpdate(data)

NextMotion == MotionUpdate \/ EventTrigger \/ RenderRain \/ MotionFrame

SpecMotion == Init /\ [][NextMotion]_vars

----------------------------------------------------------------------------
(* Properties of the storm state machine and of the gesture accumulator *)

StormEndTimers == {i \in 1..Len(timers) : timers[i].cb = "stormEnd"}

\* while STORM, the expiry of the storm is pending exactly 10 s after its entry
StormExpiryPending ==
  gameState = "STORM" =>
    /\ stormAge <= Ms(StormTimeoutMs)
    /\ \E i \in StormEndTimers : timers[i].due = Ms(StormTimeoutMs) - stormAge

\* STORM is left only when the storm is exactly 10 s old
StormLeftOnTime ==
  (gameState = "STORM" /\ gameState' = "NORMAL") => stormAge = Ms(StormTimeoutMs)

\* C1: every storm lasts exactly the configured 10 seconds: from its entry the
\* state is STORM until the timers' clock reaches entry + 10 s, STORM is never
\* left earlier, the clock cannot pass entry + 10 s in STORM, and STORM is
\* always eventually left, whatever frames, triggers and timers interleave.
C1_StormLastsTenSeconds ==
  /\ []StormExpiryPending
  /\ [][StormLeftOnTime]_vars
  /\ (gameState = "STORM") ~> (gameState = "NORMAL")

\* a storm has just expired: its follow-up message timer is freshly scheduled
C1_Witness ==
  /\ stormEntries >= 1
  /\ gameState = "NORMAL"
  /\ msg = ClearMsg
  /\ \E i \in 1..Len(timers) : timers[i] = Timer("restoreMsg", Ms(MsgTimeoutMs))

\* a frame of this step called triggerStorm while the state was STORM
TriggeredDuringStorm ==
  /\ gameState = "STORM"
  /\ lastFrame'.ran
  /\ lastFrame'.called

\* C2: a trigger is idempotent while a storm is active: a call of triggerStorm
\* made while the state is STORM leaves the state, the message and the timers
\* unchanged, and at most one storm-expiry timer is pending at any time.
C2_TriggerIdempotentInStorm ==
  /\ [](Cardinality(StormEndTimers) <= 1)
  /\ [][TriggeredDuringStorm =>
          (gameState' = gameState /\ msg' = msg /\ timers' = timers)]_vars

\* triggerStorm has just been called during a storm
C2_Witness ==
  /\ lastFrame.ran
  /\ lastFrame.called
  /\ lastFrame.gameState = "STORM"
  /\ gameState = "STORM"
  /\ Cardinality(StormEndTimers) = 1

\* C3: the gesture accumulator is bounded: after every tick it is >= 0 and
\* <= the 10 s threshold, and a tick that raises it above the threshold calls
\* onEventTrigger and ends with the accumulator equal to 0.
C3_AccumulatorBounded ==
  /\ Accumulator >= 0
  /\ Accumulator <= Sec(EVENT_THRESHOLD_SECONDS)
  /\ (lastFrame.ran /\ lastFrame.exceeded) => (lastFrame.called /\ Accumulator = 0)

\* C4: no trigger event is emitted while the game state is STORM: a tick that
\* runs while gameState is STORM does not call onEventTrigger.
C4_NoTriggerInStorm ==
  (lastFrame.ran /\ lastFrame.gameState = "STORM") => ~lastFrame.called

\* C5: sustained motion fires exactly once: with (0.9, 0) on every tick at
\* delta = 1/60 s for 10.1 s, onEventTrigger is called on the first tick at
\* which the accumulated time exceeds 10 s (tick 601) and on no other tick,
\* exactly one NORMAL -> STORM transition happens, and the accumulator is 0
\* right after the call.
C5_SustainedMotionFiresOnce ==
  /\ elapsedTime <= Sec(10) =>
       /\ triggerCalls = 0
       /\ stormEntries = 0
       /\ gameState = "NORMAL"
       /\ Accumulator = elapsedTime
  /\ elapsedTime > Sec(10) =>
       /\ triggerCalls = 1
       /\ stormEntries = 1
       /\ gameState = "STORM"
       /\ Accumulator = elapsedTime - (Sec(10) + 1)
  /\ (lastFrame.ran /\ lastFrame.called) =>
       (elapsedTime = Sec(10) + 1 /\ Accumulator = 0)

\* the 10.1 s are over and the trigger has fired
C5_Witness ==
  /\ elapsedTime = SustainedTicks
  /\ triggerCalls = 1
  /\ props.gameState = "STORM"

\* C6: input inside the deadzone never triggers: while every sample is the
\* detected sample (0.1, 0.05), the accumulator stays 0 and onEventTrigger is
\* never called, for any number of ticks.
C6_DeadzoneNeverTriggers ==
  /\ moveDurationRef = 0
  /\ movementRef = 0
  /\ triggerCalls = 0
  /\ gameState = "NORMAL"

\* more than 10 s of frames have run on the deadzone sample
C6_Witness ==
  /\ props.handData = DeadzoneSample
  /\ lastFrame.ran
  /\ lastFrame.positive
  /\ elapsedTime > Sec(EVENT_THRESHOLD_SECONDS)

\* C7: the engine idles forever on never-detected input: the game state is
\* NORMAL, onEventTrigger has never been called, the accumulator is 0, no
\* Rain exists, the flash intensity is 0 with no bolt or flash, no timer is
\* pending and the message is the default message.
C7_IdleOnUndetectedInput ==
  /\ gameState = "NORMAL"
  /\ props.gameState = "NORMAL"
  /\ triggerCalls = 0
  /\ moveDurationRef = 0
  /\ movementRef = 0
  /\ positions = <<>>
  /\ flashIntensity = 0
  /\ activeBolt = NullBolt
  /\ ~flash
  /\ ~bolt
  /\ timers = <<>>
  /\ msg = DefaultMsg

\* more than 10 s of frames have run on undetected samples
C7_Witness ==
  /\ ~props.handData.isDetected
  /\ lastFrame.ran
  /\ lastFrame.positive
  /\ elapsedTime > Sec(EVENT_THRESHOLD_SECONDS)

----------------------------------------------------------------------------
(* Properties of the weather components *)

Particles == 1..(Len(positions) \div 3)

\* the height of particle i, before and after a step
Height(i)    == positions[3 * i - 1]
NewHeight(i) == positions'[3 * i - 1]

\* a particle that moved up in a step was put at the top height
RisesOnlyToTop ==
  (positions # <<>> /\ positions' # <<>>) =>
    \A i \in Particles : NewHeight(i) > Height(i) => NewHeight(i) = H(RainTop)

\* C8: no rain particle is below height 0 after a tick: a particle that drops
\* below 0 in a tick is put at the top height 300 within the same tick.
C8_RainNeverBelowZero ==
  /\ [](\A i \in Particles : Height(i) >= 0)
  /\ [][RisesOnlyToTop]_vars

\* a particle has fallen through 0 and sits at the top
C8_Witness ==
  /\ rainAge > 0
  /\ \E i \in Particles : Height(i) = H(RainTop)

\* C9: after 3 simulated seconds of rain, however partitioned into ticks and
\* whatever the initial heights, every particle height lies in [0, 300], and
\* it stays there on every later tick.
C9_RainWithinWrapRange ==
  rainAge >= Sec(3) =>
    \A i \in Particles : Height(i) >= 0 /\ Height(i) <= H(RainTop)

\* 3 s of rain have been simulated
C9_Witness ==
  /\ positions # <<>>
  /\ rainAge = Sec(3)
  /\ \E i \in Particles : Height(i) < H(RainTop)

\* C10: the flash intensity of the frame-driven LightningSystem is never
\* negative after a frame callback.
C10_FlashIntensityNonNegative == flashIntensity >= 0

\* a flash fired in this step: only a flash writes nextFlashTime
FlashFired == nextFlashTime' # nextFlashTime

\* a step of the enabled LightningSystem in which no flash fires
EnabledWithoutFlash == props.gameState = "STORM" /\ ~FlashFired

\* C11: the flash intensity only changes by decaying or by a flash: on every
\* enabled tick in which no flash fires the intensity after the tick is <= the
\* intensity before it, and on every tick in which a flash fires the intensity
\* is the peak 2.0 with that tick's decay applied to it.
C11_FlashOnlyDecaysOrFlashes ==
  [][/\ EnabledWithoutFlash => flashIntensity' <= flashIntensity
     /\ FlashFired => flashIntensity' = FlashDecay(FlashPeak, elapsedTime' - elapsedTime)]_vars

----------------------------------------------------------------------------
(* Properties of the lightning schedules *)

LightningTimerDues ==
  {timers[i].due : i \in {j \in 1..Len(timers) : timers[j].cb = "triggerLightning"}}

\* frame-driven: the next flash lies in [now + 0.5 s, now + 3 s], and the
\* previous flash is at least 0.5 s back
FrameFlashInWindow ==
  FlashFired =>
    /\ nextFlashTime' - elapsedTime' >= Sec(1) \div 2
    /\ nextFlashTime' - elapsedTime' <= Sec(3)
    /\ flashGap + (elapsedTime' - elapsedTime) >= Sec(1) \div 2

\* timer-driven: the next flash is scheduled 1 s to 3 s ahead, and the previous
\* flash of this activation is at least 1 s back
TimerFlashInWindow ==
  LightningStrikes =>
    /\ \A d \in LightningTimerDues' : d >= Sec(1) /\ d <= Sec(3)
    /\ Cardinality(LightningTimerDues') = 1
    /\ boltAge >= Sec(1) \/ activeAge <= boltAge

\* C12: after each flash the next flash is scheduled inside the delay window:
\* nextFlashTime in [now + 0.5 s, now + 3.0 s] in the frame-driven
\* LightningSystem, a timer delay in [1 s, 3 s] in the timer-driven one, and
\* two flashes of one storm are never closer than the minimum delay.
C12_NextFlashInDelayWindow ==
  [][FrameFlashInWindow /\ TimerFlashInWindow]_vars

\* a flash of the timer-driven system that is not the first of its storm
C12_Witness ==
  /\ HasEffectLightning
  /\ bolt
  /\ boltAge = 0
  /\ activeAge = MaxAge
  /\ props.gameState = "STORM"

Disabled == props.gameState # "STORM"

LightningOff ==
  /\ activeBolt = NullBolt
  /\ flashIntensity = 0
  /\ ~flash
  /\ ~bolt

\* a frame of the disabled frame-driven system clears it and triggers nothing
DisabledFrameClears ==
  (StormFrame /\ Disabled) =>
    /\ activeBolt' = NullBolt
    /\ flashIntensity' = 0
    /\ nextFlashTime' = nextFlashTime
    /\ timers' = timers

\* the effect run that deactivates the timer-driven system clears it and
\* leaves no flash scheduled
DisabledEffectClears ==
  (HasEffectLightning /\ Disabled') =>
    /\ ~flash'
    /\ ~bolt'
    /\ LightningTimerDues' = {}

\* once cleared, nothing turns the lightning back on while it stays disabled
StaysOff == (Disabled /\ Disabled' /\ LightningOff) => LightningOff'

\* C13: deactivating the lightning system clears it and keeps it clear: after
\* every tick or effect run in which the system is disabled the flash
\* intensity is 0, the flash flag is false and no bolt is active, no flash is
\* triggered, and no timer left pending from the storm turns the flash or the
\* bolt back on while the system stays disabled.
C13_DeactivationClears ==
  [][DisabledFrameClears /\ DisabledEffectClears /\ StaysOff]_vars

\* the timer-driven system was deactivated while hide timers of its last
\* flash are still pending
C13_Witness ==
  /\ HasEffectLightning
  /\ Disabled
  /\ stormEntries >= 1
  /\ \E i \in 1..Len(timers) : timers[i].cb = "hideBoltLate"
  /\ LightningOff

----------------------------------------------------------------------------
(* Properties of the animated quantities *)

\* the step is a frame with delta = 0
DegenerateTick == lastFrame'.ran /\ ~lastFrame'.positive

\* C14: a degenerate tick is a no-op: after a tick with delta = 0 (the frame
\* clock yields no negative delta), in any state, the camera position, the
\* water distortionScale and every rain particle height are what they were
\* before the tick.
C14_DegenerateTickIsNoOp ==
  [][DegenerateTick =>
       /\ cameraPosition' = cameraPosition
       /\ distortionScale' = distortionScale
       /\ positions' = positions]_vars

\* a tick with delta = 0 has run while the camera was moving, the water was
\* between its two distortion targets and rain was falling
C14_Witness ==
  /\ lastFrame.ran
  /\ ~lastFrame.positive
  /\ cameraPosition # InitialCamera
  /\ distortionScale > baseDistortion
  /\ distortionScale < stormDistortion
  /\ positions # <<>>
  /\ rainAge > 0

----------------------------------------------------------------------------
(* Properties of the notifications *)

RestoreTimers == {i \in 1..Len(timers) : timers[i].cb = "restoreMsg"}

\* the restorations still waiting, as the time left to each
RestoreDues == {timers[i].due : i \in RestoreTimers}

\* entering STORM shows the storm message
EntryShowsStormMsg ==
  (gameState = "NORMAL" /\ gameState' = "STORM") => msg' = StormMsg

\* leaving STORM shows the clearing message and defers the restoration by 4 s
ExitShowsClearMsg ==
  (gameState = "STORM" /\ gameState' = "NORMAL") =>
    /\ msg' = ClearMsg
    /\ Sec(4) \in RestoreDues'
    /\ Cardinality(RestoreTimers') = Cardinality(RestoreTimers) + 1

\* a restoration runs when its 4 s are over, not before, and shows the default
\* message; nothing else shows the default message again
RestoredOnTime ==
  /\ Cardinality(RestoreTimers') < Cardinality(RestoreTimers) =>
       (0 \in RestoreDues /\ msg' = DefaultMsg)
  /\ (msg # DefaultMsg /\ msg' = DefaultMsg) =>
       (0 \in RestoreDues /\ Cardinality(RestoreTimers') < Cardinality(RestoreTimers))

\* C15: storm notifications follow a fixed sequence: entering STORM shows the
\* storm message, leaving it shows the clearing message, exactly 4 s after the
\* exit the default message is restored, and once no storm starts any more
\* the message eventually is and stays the default message.
C15_NotificationSequence ==
  /\ [][EntryShowsStormMsg /\ ExitShowsClearMsg /\ RestoredOnTime]_vars
  /\ [](gameState = "NORMAL" /\ msg = ClearMsg => RestoreDues # {})
  /\ (<>[](gameState = "NORMAL")) => (<>[](msg = DefaultMsg))

\* a storm is over and its deferred restoration has run
C15_Witness ==
  /\ stormEntries >= 1
  /\ gameState = "NORMAL"
  /\ msg = DefaultMsg
  /\ timers = <<>>

----------------------------------------------------------------------------
(* Properties of the gesture accumulator's decay *)

\* the decay rate the claim names for the mounted build
DecayRate == IF variant = "SceneController" THEN 2 ELSE 1

\* the rendered sample does not exceed the deadzone, or shows no hand
IdleSample ==
  \/ ~props.handData.isDetected
  \/ IF variant = "SceneController"
     THEN ~SceneControllerIsMoving(props.handData)
     ELSE ~SceneContentIsMoving(props.handData)

\* C16: the accumulator decays whenever the input does not exceed the
\* deadzone, including when no hand is detected: a tick with delta > 0 on such
\* a sample turns an accumulator value a > 0 into max(0, a - r * delta), with
\* r = 2 in SceneController and r = 1 in SceneContent.
C16_DecaysWithoutMotion ==
  [][(lastFrame'.ran /\ lastFrame'.positive /\ IdleSample /\ Accumulator > 0) =>
       Accumulator' = Max(0, Accumulator - DecayRate * (elapsedTime' - elapsedTime))]_vars

----------------------------------------------------------------------------
(* Properties of the order within a frame *)

\* the scene callback of this step called onEventTrigger and entered STORM
TriggerTick ==
  /\ lastFrame'.ran
  /\ lastFrame'.called
  /\ gameState = "NORMAL"
  /\ gameState' = "STORM"

\* C17: a trigger takes effect in the tick that fires it: in the frame whose
\* scene callback calls onEventTrigger from NORMAL, the weather components
\* stepped later in that frame observe STORM: they read the STORM state, Rain
\* exists, the water distortion moves toward the storm target and the
\* frame-driven LightningSystem is enabled and flashes.
C17_TriggerVisibleInSameTick ==
  [][TriggerTick =>
       /\ props'.gameState = "STORM"
       /\ positions' # <<>>
       /\ distortionScale' > distortionScale
       /\ HasFrameLightning => activeBolt' # NullBolt]_vars

----------------------------------------------------------------------------
(* Properties of the lightning after an activation *)

\* C18: on every (re)activation of the lightning system the first flash is
\* scheduled within the delay window after the activation: no flash fires
\* earlier than the minimum delay (0.5 s frame-driven, 1 s timer-driven) after
\* the system was rendered into STORM, in the first storm and in later ones.
C18_FirstFlashAfterMinDelay ==
  [][/\ FlashFired => enabledAge' >= Sec(1) \div 2
     /\ LightningStrikes => activeAge >= Sec(1)]_vars

----------------------------------------------------------------------------
(* Properties of the bolt's lifetime *)

\* C19: every bolt stays visible for its full fixed duration: the bolt (or
\* flash) shown by a flash is cleared, while the system stays enabled, only
\* when it is 150 ms old (frame-driven), 300 ms old (timer-driven bolt) or
\* 100 ms old (timer-driven flash); no hide timer of an earlier flash or of
\* the previous storm clears it earlier.
C19_BoltVisibleFullDuration ==
  [][/\ (activeBolt # NullBolt /\ activeBolt' = NullBolt /\ ~Disabled) => boltAge = Ms(150)
     /\ (bolt /\ ~bolt' /\ ~Disabled') => boltAge = Ms(300)
     /\ (flash /\ ~flash' /\ ~Disabled') => boltAge = Ms(100)]_vars

----------------------------------------------------------------------------
(* Properties of the rain's position array *)

\* C20: a rain tick only moves particles vertically: while the Rain stays
\* mounted the array keeps its 3 * count elements, a tick leaves the x and z
\* of every particle unchanged, and it writes a y only to lower it or to put
\* it at the top height 300.
C20_RainMovesOnlyVertically ==
  [][(positions # <<>> /\ positions' # <<>>) =>
       /\ Len(positions') = Len(positions)
       /\ Len(positions) = 3 * MaxParticles
       /\ \A i \in Particles :
            /\ positions'[3 * i - 2] = positions[3 * i - 2]
            /\ positions'[3 * i] = positions[3 * i]
            /\ NewHeight(i) <= Height(i) \/ NewHeight(i) = H(RainTop)]_vars

\* rain has fallen for a while: a particle was put back at the top, another
\* is lower, and the horizontal coordinates are those of the mount
C20_Witness ==
  /\ positions # <<>>
  /\ rainAge >= Sec(1)
  /\ \E i, j \in Particles : Height(i) = H(RainTop) /\ Height(j) < H(RainTop)
  /\ <<positions[1], positions[3]>> \in InitialColumns

----------------------------------------------------------------------------
(* Properties of the bolt path *)

\* the returned list descends from the start in steps of [10, 40) and only
\* its last point is at or below 10
DescendingPath ==
  /\ Len(pts) >= 1
  /\ pts[1] = startPos
  /\ \A i \in 1..(Len(pts) - 1) :
       /\ pts[i] - pts[i + 1] >= 10
       /\ pts[i] - pts[i + 1] < 40
       /\ pts[i] > 10
  /\ pts[Len(pts)] <= 10
  /\ startPos <= 10 => Len(pts) = 1
  /\ startPos = 300 => Len(pts) <= 30

\* C21: createBoltPoints terminates with a descending path: every call
\* returns; the list it returns is not empty, starts with the start position,
\* has strictly decreasing y (by at least 10 and less than 40 per step), only
\* its last point has y <= 10, and from y = 300 it has at most 30 points.
C21_BoltPathDescendsAndEnds ==
  /\ [](boltPc = "done" => DescendingPath)
  /\ [](startPos = 300 => Len(pts) <= 30)
  /\ (boltPc = "loop") ~> (boltPc = "done")

\* a call from y = 300 has returned the longest path, of 30 points
C21_Witness ==
  /\ boltPc = "done"
  /\ startPos = 300
  /\ Len(pts) = 30

----------------------------------------------------------------------------
(* Properties of the message shown with the game state *)

\* C22: the displayed message is consistent with the game state: whenever
\* the game state is STORM the message is the storm message, and the deferred
\* restoration of the default message, scheduled at the end of an earlier
\* storm, never overwrites the message of a storm that started meanwhile.
C22_MessageMatchesState ==
  /\ [](gameState = "STORM" => msg = StormMsg)
  /\ [][(gameState = "STORM" /\ gameState' = "STORM") => msg' = msg]_vars

----------------------------------------------------------------------------
(* Properties of the cooldown between storms *)

\* C23: storms do not chain without fresh gesture activity: after a return
\* from STORM to NORMAL, the next entry into STORM happens only after more
\* than 10 s of above-deadzone motion accumulated since that return; motion
\* performed during the storm does not carry over.
C23_NoStormWithoutFreshMotion ==
  [][(gameState = "NORMAL" /\ gameState' = "STORM" /\ stormEntries >= 1)
       => calmMotion' > Sec(EVENT_THRESHOLD_SECONDS)]_vars

----------------------------------------------------------------------------
(* Properties of the water distortion *)

\* C24: the water distortionScale never leaves the range between its two
\* targets: after every OceanMesh tick it is at least 3.7 and at most 8.0,
\* and each tick moves it toward, never past, the target of the current
\* state (8.0 in STORM, 3.7 in NORMAL).
C24_DistortionWithinTargets ==
  /\ [](baseDistortion <= distortionScale /\ distortionScale <= stormDistortion)
  /\ [][/\ Min(distortionScale, targetDistortion) <= distortionScale'
        /\ distortionScale' <= Max(distortionScale, targetDistortion)]_vars

====
